---- MODULE Spec2Model ----
(***************************************************************************)
(* Model of static/js/app.js: the askQuestion click handler, the fetch     *)
(* promise chain it builds, and the three DOM elements it reads and        *)
(* writes (#question, #response, #loader).                                 *)
(*                                                                         *)
(* JavaScript runs every handler and every promise callback to completion  *)
(* on one thread.  pc is the position of the running askQuestion call;     *)
(* nothing else runs while pc # "idle".  Texts of the page are TLA+        *)
(* strings; the value of the input field is a sequence of characters so    *)
(* that trim() can be computed on it.                                      *)
(***************************************************************************)
EXTENDS Naturals, Sequences, FiniteSets, TLC

VARIABLES
    input,         \* questionInput.value
    output,        \* responseDiv.innerText
    loaderHidden,  \* loader.classList.contains("hidden")
    pc,            \* position of the running askQuestion call, or "idle"
    question,      \* the const `question` of the running call
    calls,         \* number of askQuestion invocations so far
    sent,          \* number of fetch() calls made so far
    requests,      \* the requests in flight: id -> request and its promise chain
    console,       \* what console.error has been given, in order
    last           \* the request whose promise chain finished last

vars == <<input, output, loaderHidden, pc, question, calls, sent, requests,
          console, last>>

------------------------------------------------------------------------------
(* Bounds *)

MaxCalls == 2    \* invocations of askQuestion in one run

\* values the user types into the input field
Inputs == {<<>>, <<" ">>, <<"\t", " ">>, <<"a">>, <<" ", "a", "\t">>, <<"b", " ">>}

------------------------------------------------------------------------------
(* Strings: String.prototype.trim and truthiness *)

IsWhiteSpace(c) == c \in {" ", "\t", "\n", "\r"}

RECURSIVE TrimStart(_)
TrimStart(s) ==
    IF s = <<>> THEN s
    ELSE IF IsWhiteSpace(Head(s)) THEN TrimStart(Tail(s)) ELSE s

RECURSIVE TrimEnd(_)
TrimEnd(s) ==
    IF s = <<>> THEN s
    ELSE IF IsWhiteSpace(s[Len(s)]) THEN TrimEnd(SubSeq(s, 1, Len(s) - 1)) ELSE s

\* trim() that strips spaces alone
RECURSIVE StripSpacesStart(_)
StripSpacesStart(s) ==
    IF s = <<>> THEN s
    ELSE IF Head(s) = " " THEN StripSpacesStart(Tail(s)) ELSE s

RECURSIVE StripSpacesEnd(_)
StripSpacesEnd(s) ==
    IF s = <<>> THEN s
    ELSE IF s[Len(s)] = " " THEN StripSpacesEnd(SubSeq(s, 1, Len(s) - 1)) ELSE s

TrimSpacesOnly(s) == StripSpacesEnd(StripSpacesStart(s))

Trim(s) == TrimEnd(TrimStart(s))

\* !question : the empty string is the only falsy string
Falsy(s) == s = <<>>

ValidationMsg == " Please enter a question."
ErrorMsg == " Error connecting to server."

------------------------------------------------------------------------------
(* JSON.  A JSON text is a sequence of tokens; a string token carries its  *)
(* content in v.  JSON values are records tagged by type.                  *)

LBrace == [k |-> "{"]
RBrace == [k |-> "}"]
Colon == [k |-> ":"]
Str(s) == [k |-> "string", v |-> s]
NullTok == [k |-> "null"]
Garbage(s) == [k |-> "garbage", v |-> s]

Undefined == [type |-> "undefined"]
Null == [type |-> "null"]
StringValue(s) == [type |-> "string", v |-> s]
ObjectValue(f) == [type |-> "object", fields |-> f]
EmptyFields == [x \in {} |-> Undefined]

\* JSON.stringify({ question })
JSONStringify(q) == <<LBrace, Str("question"), Colon, Str(q), RBrace>>

IsScalarTok(t) == t.k \in {"string", "null"}

ScalarOf(t) == IF t.k = "string" THEN StringValue(t.v) ELSE Null

\* JSON.parse, as response.json() applies it to the body: the value, or a
\* SyntaxError
JSONParse(text) ==
    IF Len(text) = 1 /\ IsScalarTok(text[1])
        THEN [ok |-> TRUE, value |-> ScalarOf(text[1])]
    ELSE IF Len(text) = 2 /\ text[1].k = "{" /\ text[2].k = "}"
        THEN [ok |-> TRUE, value |-> ObjectValue(EmptyFields)]
    ELSE IF /\ Len(text) = 5
            /\ text[1].k = "{" /\ text[2].k = "string" /\ text[3].k = ":"
            /\ IsScalarTok(text[4]) /\ text[5].k = "}"
        THEN [ok |-> TRUE, value |-> ObjectValue(text[2].v :> ScalarOf(text[4]))]
    ELSE [ok |-> FALSE]

\* data.response : reading a property of null or undefined throws a TypeError
PropertyThrows(data) == data.type \in {"null", "undefined"}

GetProperty(data, key) ==
    IF data.type = "object" /\ key \in DOMAIN data.fields
    THEN data.fields[key]
    ELSE Undefined

\* the innerText setter converts what it is given to a DOM string
ToDOMString(v) ==
    CASE v.type = "string" -> v.v
      [] v.type = "undefined" -> "undefined"
      [] v.type = "null" -> ""
      [] v.type = "object" -> "[object Object]"

------------------------------------------------------------------------------
(* What the server may answer.  fetch() resolves for every HTTP status and *)
(* rejects only when no response arrives.                                  *)

BodyAnswer == <<LBrace, Str("response"), Colon, Str("42"), RBrace>>
BodyNoField == <<LBrace, RBrace>>
BodyNull == <<NullTok>>
BodyHtml == <<Garbage("<html>")>>

ServerBodies == <<BodyAnswer, BodyNoField, BodyNull, BodyHtml>>

Statuses == {200, 500}

NetworkError == "TypeError: Failed to fetch"
ParseError == "SyntaxError: Unexpected token"
PropertyError == "TypeError: Cannot read properties of null"

------------------------------------------------------------------------------
(* State *)

Pending == [state |-> "pending"]

NoRequest == [id |-> 0]

Ids == DOMAIN requests

SetPromise(id, p) == [requests EXCEPT ![id].promise = p]

\* a settled promise chain is unreachable and is collected
Drop(id) == [i \in Ids \ {id} |-> requests[i]]

\* request id was issued after the last finished request had finished, with
\* the same body, and was served alike
Repeats(id) ==
    /\ last.id # 0
    /\ requests[id].after = last.id
    /\ requests[id].body = last.body
    /\ requests[id].served = last.served

\* what is remembered of the request that finished last
Finished(id, text) ==
    [ id |-> id,
      body |-> requests[id].body,
      served |-> requests[id].served,
      after |-> requests[id].after,
      again |-> Repeats(id),
      text |-> text,
      hidden |-> loaderHidden' ]

\* the page as loaded: the input and the output empty, the loader carrying
\* the class "hidden" that lines 13, 24 and 28 remove and add
Init ==
    /\ input = <<>>
    /\ output = ""
    /\ loaderHidden = TRUE
    /\ pc = "idle"
    /\ question = <<>>
    /\ calls = 0
    /\ sent = 0
    /\ requests = <<>>
    /\ console = <<>>
    /\ last = NoRequest

------------------------------------------------------------------------------
(* The user edits the input field between handler runs *)

TypeInput(v) ==
    /\ pc = "idle"
    /\ v # input
    /\ input' = v
    /\ UNCHANGED <<output, loaderHidden, pc, question, calls, sent, requests,
                   console, last>>

------------------------------------------------------------------------------
(* askQuestion, lines 1-21 *)

\* the handler with the loader hidden on the validation path
AskQuestionHidesLoader ==
    /\ pc = "idle"
    /\ calls < MaxCalls
    /\ calls' = calls + 1
    /\ LET q == Trim(input) IN
         IF Falsy(q)
         THEN /\ output' = ValidationMsg
              /\ loaderHidden' = TRUE
              /\ UNCHANGED <<pc, question>>
         ELSE /\ question' = q
              /\ pc' = "clear"
              /\ UNCHANGED <<output, loaderHidden>>
    /\ UNCHANGED <<input, sent, requests, console, last>>

\* the handler with the input field emptied on the validation path
AskQuestionClearsInput ==
    /\ pc = "idle"
    /\ calls < MaxCalls
    /\ calls' = calls + 1
    /\ LET q == Trim(input) IN
         IF Falsy(q)
         THEN /\ output' = ValidationMsg
              /\ input' = <<>>
              /\ UNCHANGED <<pc, question>>
         ELSE /\ question' = q
              /\ pc' = "clear"
              /\ UNCHANGED <<input, output>>
    /\ UNCHANGED <<loaderHidden, sent, requests, console, last>>

\* lines 1-10: read and trim the input; an empty question is answered at once
AskQuestion ==
    /\ pc = "idle"
    /\ calls < MaxCalls
    /\ calls' = calls + 1
    /\ LET q == Trim(input) IN
         IF Falsy(q)
         THEN /\ output' = ValidationMsg
              /\ UNCHANGED <<pc, question>>
         ELSE /\ question' = q
              /\ pc' = "clear"
              /\ UNCHANGED output
    /\ UNCHANGED <<input, loaderHidden, sent, requests, console, last>>

\* the handler with line 12 left out
ClearResponseSkipped ==
    /\ pc = "clear"
    /\ pc' = "show"
    /\ UNCHANGED <<input, output, loaderHidden, question, calls, sent, requests,
                   console, last>>

\* line 12
ClearResponse ==
    /\ pc = "clear"
    /\ output' = ""
    /\ pc' = "show"
    /\ UNCHANGED <<input, loaderHidden, question, calls, sent, requests, console,
                   last>>

\* line 13
ShowLoader ==
    /\ pc = "show"
    /\ loaderHidden' = FALSE
    /\ pc' = "fetch"
    /\ UNCHANGED <<input, output, question, calls, sent, requests, console, last>>

NewRequest(q) ==
    [ method |-> "POST",
      url |-> "/ask",
      contentType |-> "application/json",
      body |-> JSONStringify(q),
      promise |-> Pending,
      served |-> [kind |-> "nothing"],
      after |-> last.id ]

\* the handler with the earlier requests aborted by the new one
FetchAbortsEarlier ==
    /\ pc = "fetch"
    /\ sent' = sent + 1
    /\ requests' = (calls :> NewRequest(question))
    /\ pc' = "idle"
    /\ question' = <<>>
    /\ UNCHANGED <<input, output, loaderHidden, calls, console, last>>

\* lines 15-21: the request leaves and the handler returns
Fetch ==
    /\ pc = "fetch"
    /\ sent' = sent + 1
    /\ requests' = (calls :> NewRequest(question)) @@ requests
    /\ pc' = "idle"
    /\ question' = <<>>
    /\ UNCHANGED <<input, output, loaderHidden, calls, console, last>>

------------------------------------------------------------------------------
(* The network *)

\* a response arrives: fetch() resolves, whatever the status
FetchResolves(id, status, b) ==
    /\ pc = "idle"
    /\ requests[id].promise.state = "pending"
    /\ requests' = [requests EXCEPT
                      ![id].promise = [state |-> "response"],
                      ![id].served = [kind |-> "response", status |-> status,
                                      body |-> b]]
    /\ UNCHANGED <<input, output, loaderHidden, pc, question, calls, sent,
                   console, last>>

\* no response arrives: fetch() rejects
FetchRejects(id) ==
    /\ pc = "idle"
    /\ requests[id].promise.state = "pending"
    /\ requests' = [requests EXCEPT
                      ![id].promise = [state |-> "rejected", reason |-> NetworkError],
                      ![id].served = [kind |-> "failure"]]
    /\ UNCHANGED <<input, output, loaderHidden, pc, question, calls, sent,
                   console, last>>

------------------------------------------------------------------------------
(* The promise chain, lines 22-31 *)

\* the callback with a response.ok test: a status outside 200-299 is thrown
ThenJsonChecksStatus(id) ==
    /\ pc = "idle"
    /\ requests[id].promise.state = "response"
    /\ LET parsed == JSONParse(ServerBodies[requests[id].served.body]) IN
         requests' = SetPromise(id,
            IF requests[id].served.status \notin 200..299
            THEN [state |-> "rejected", reason |-> "Error: HTTP status"]
            ELSE IF parsed.ok
            THEN [state |-> "data", value |-> parsed.value]
            ELSE [state |-> "rejected", reason |-> ParseError])
    /\ UNCHANGED <<input, output, loaderHidden, pc, question, calls, sent,
                   console, last>>

\* the callback with the loader hidden as soon as the response arrives
ThenJsonHidesLoader(id) ==
    /\ pc = "idle"
    /\ requests[id].promise.state = "response"
    /\ loaderHidden' = TRUE
    /\ LET parsed == JSONParse(ServerBodies[requests[id].served.body]) IN
         requests' = SetPromise(id,
            IF parsed.ok
            THEN [state |-> "data", value |-> parsed.value]
            ELSE [state |-> "rejected", reason |-> ParseError])
    /\ UNCHANGED <<input, output, pc, question, calls, sent, console, last>>

\* line 22: response => response.json()
ThenJson(id) ==
    /\ pc = "idle"
    /\ requests[id].promise.state = "response"
    /\ LET parsed == JSONParse(ServerBodies[requests[id].served.body]) IN
         requests' = SetPromise(id,
            IF parsed.ok
            THEN [state |-> "data", value |-> parsed.value]
            ELSE [state |-> "rejected", reason |-> ParseError])
    /\ UNCHANGED <<input, output, loaderHidden, pc, question, calls, sent,
                   console, last>>

\* the callback with data shown in place of data.response
ThenDataShowsData(id) ==
    /\ pc = "idle"
    /\ requests[id].promise.state = "data"
    /\ loaderHidden' = TRUE
    /\ output' = ToDOMString(requests[id].promise.value)
    /\ requests' = Drop(id)
    /\ last' = Finished(id, output')
    /\ UNCHANGED <<input, pc, question, calls, sent, console>>

\* lines 23-26: data => { hide the loader; show data.response }
ThenData(id) ==
    /\ pc = "idle"
    /\ requests[id].promise.state = "data"
    /\ loaderHidden' = TRUE
    /\ LET data == requests[id].promise.value IN
         IF PropertyThrows(data)
         THEN /\ requests' = SetPromise(id, [state |-> "rejected",
                                             reason |-> PropertyError])
              /\ UNCHANGED <<output, last>>
         ELSE /\ output' = ToDOMString(GetProperty(data, "response"))
              /\ requests' = Drop(id)
              /\ last' = Finished(id, output')
    /\ UNCHANGED <<input, pc, question, calls, sent, console>>

\* the handler with the request issued again after a failure
CatchRetries(id) ==
    /\ pc = "idle"
    /\ requests[id].promise.state = "rejected"
    /\ loaderHidden' = TRUE
    /\ output' = ErrorMsg
    /\ console' = Append(console, requests[id].promise.reason)
    /\ sent' = sent + 1
    /\ requests' = [requests EXCEPT ![id].promise = Pending,
                                    ![id].served = [kind |-> "nothing"]]
    /\ UNCHANGED <<input, pc, question, calls, last>>

\* the handler with the loader left as it is
CatchKeepsLoader(id) ==
    /\ pc = "idle"
    /\ requests[id].promise.state = "rejected"
    /\ UNCHANGED loaderHidden
    /\ output' = ErrorMsg
    /\ console' = Append(console, requests[id].promise.reason)
    /\ requests' = Drop(id)
    /\ last' = Finished(id, output')
    /\ UNCHANGED <<input, pc, question, calls, sent>>

\* the handler with err shown to the user
CatchShowsCause(id) ==
    /\ pc = "idle"
    /\ requests[id].promise.state = "rejected"
    /\ loaderHidden' = TRUE
    /\ output' = requests[id].promise.reason
    /\ console' = Append(console, requests[id].promise.reason)
    /\ requests' = Drop(id)
    /\ last' = Finished(id, output')
    /\ UNCHANGED <<input, pc, question, calls, sent>>

\* lines 27-31: err => { hide the loader; show the error message; log err }
Catch(id) ==
    /\ pc = "idle"
    /\ requests[id].promise.state = "rejected"
    /\ loaderHidden' = TRUE
    /\ output' = ErrorMsg
    /\ console' = Append(console, requests[id].promise.reason)
    /\ requests' = Drop(id)
    /\ last' = Finished(id, output')
    /\ UNCHANGED <<input, pc, question, calls, sent>>

------------------------------------------------------------------------------

Next ==
    \/ \E v \in Inputs : TypeInput(v)
    \/ AskQuestion
    \/ ClearResponse
    \/ ShowLoader
    \/ Fetch
    \/ \E id \in Ids, status \in Statuses, b \in DOMAIN ServerBodies :
          FetchResolves(id, status, b)
    \/ \E id \in Ids : FetchRejects(id)
    \/ \E id \in Ids : ThenJson(id)
    \/ \E id \in Ids : ThenData(id)
    \/ \E id \in Ids : Catch(id)

Spec == Init /\ [][Next]_vars

\* A started handler runs to its end, a settled promise has its callback run
\* by the event loop, and every request is answered or fails in the end.
Progress ==
    \/ ClearResponse
    \/ ShowLoader
    \/ Fetch
    \/ \E id \in Ids, status \in Statuses, b \in DOMAIN ServerBodies :
          FetchResolves(id, status, b)
    \/ \E id \in Ids : FetchRejects(id)
    \/ \E id \in Ids : ThenJson(id)
    \/ \E id \in Ids : ThenData(id)
    \/ \E id \in Ids : Catch(id)

FairSpec == Spec /\ WF_vars(Progress)

------------------------------------------------------------------------------
(* Vocabulary of the properties: steps and outcomes, read off the state    *)

OnlyWhitespace(s) == \A i \in 1..Len(s) : IsWhiteSpace(s[i])

\* t is s without its leading and trailing whitespace
IsTrimOf(t, s) ==
    \E i \in 1..(Len(s) + 1), j \in 0..Len(s) :
        /\ t = SubSeq(s, i, j)
        /\ \A k \in 1..(i - 1) : IsWhiteSpace(s[k])
        /\ \A k \in (j + 1)..Len(s) : IsWhiteSpace(s[k])
        /\ t # <<>> => ~IsWhiteSpace(t[1]) /\ ~IsWhiteSpace(t[Len(t)])

\* askQuestion is invoked in this step
Invoked == pc = "idle" /\ calls' = calls + 1

\* the request leaves in this step
Issued == sent' = sent + 1

\* the success callback of request id runs in this step
SuccessCallbackRan(id) ==
    /\ id \in Ids
    /\ requests[id].promise.state = "data"
    /\ id \in DOMAIN requests' => requests'[id].promise # requests[id].promise

\* the failure callback of request id runs in this step
FailureCallbackRan(id) ==
    /\ id \in Ids
    /\ requests[id].promise.state = "rejected"
    /\ id \in DOMAIN requests' => requests'[id].promise # requests[id].promise

\* the promise chain of request id finishes in this step
Completed(id) == id \in Ids /\ id \notin DOMAIN requests'

\* the body the server gave request id
ServedBody(id) == ServerBodies[requests[id].served.body]

\* the JSON text {"response": "r"}
ResponseObject(r) == <<LBrace, Str("response"), Colon, Str(r), RBrace>>

Answers == {"42"}

------------------------------------------------------------------------------
(* C1: an invocation whose input is empty or only whitespace issues no     *)
(* request, and when it returns the output is the validation message.      *)

C1_EmptyInputValidated ==
    [][ (Invoked /\ OnlyWhitespace(input)) =>
            /\ pc' = "idle"
            /\ sent' = sent
            /\ requests' = requests
            /\ output' = ValidationMsg ]_vars

C1_Witness ==
    /\ pc = "idle"
    /\ calls = 1
    /\ sent = 0
    /\ input = <<"\t", " ">>
    /\ output = ValidationMsg

------------------------------------------------------------------------------
(* C2: an invocation whose trimmed input is not empty issues exactly one   *)
(* request, a POST to /ask whose body's question field is the trimmed      *)
(* input; no request is issued at any other time, so none is retried       *)
(* after a failure.                                                        *)

BodyQuestion(r) == GetProperty(JSONParse(r.body).value, "question")

C2_ExactlyOneRequest ==
    [][ /\ (Invoked /\ ~OnlyWhitespace(input)) => (pc' = "clear" /\ ~Issued)
        /\ pc \in {"clear", "show"} => (pc' \in {"show", "fetch"} /\ sent' = sent)
        /\ pc = "fetch" =>
              /\ Issued
              /\ pc' = "idle"
              /\ calls \notin Ids
              /\ DOMAIN requests' = Ids \cup {calls}
              /\ requests'[calls].method = "POST"
              /\ requests'[calls].url = "/ask"
              /\ requests'[calls].contentType = "application/json"
              /\ JSONParse(requests'[calls].body).ok
              /\ BodyQuestion(requests'[calls]).type = "string"
              /\ IsTrimOf(BodyQuestion(requests'[calls]).v, input)
        /\ pc # "fetch" => (sent' = sent /\ DOMAIN requests' \subseteq Ids) ]_vars

C2_Witness ==
    /\ pc = "idle"
    /\ calls = 1
    /\ sent = 1
    /\ input = <<" ", "a", "\t">>
    /\ Ids = {1}
    /\ BodyQuestion(requests[1]).v = <<"a">>
    /\ console = <<>>

------------------------------------------------------------------------------
(* C3: when the body of the response is a JSON object with a response      *)
(* field r, then right after the success callback the output is r and the  *)
(* loading indicator is hidden.                                            *)

C3_AnswerShown ==
    [][ \A id \in Ids : \A r \in Answers :
          (SuccessCallbackRan(id) /\ ServedBody(id) = ResponseObject(r)) =>
              (output' = r /\ loaderHidden') ]_vars

C3_Witness ==
    /\ last.id # 0
    /\ last.served = [kind |-> "response", status |-> 200, body |-> 1]
    /\ ServerBodies[1] = ResponseObject("42")
    /\ output = "42"
    /\ loaderHidden

------------------------------------------------------------------------------
(* C4: when the request fails, by a network failure or by a body that is   *)
(* not JSON, the chain never reaches the success callback, and right after *)
(* the failure callback the output is the one fixed error message and the  *)
(* loading indicator is hidden; the cause goes to the console alone.       *)

Failed(id) ==
    \/ requests[id].served.kind = "failure"
    \/ requests[id].served.kind = "response" /\ ServedBody(id) = BodyHtml

C4_FailureShown ==
    [][ \A id \in Ids :
          /\ Failed(id) => requests[id].promise.state \in {"response", "rejected"}
          /\ (FailureCallbackRan(id) /\ Failed(id)) =>
                /\ output' = ErrorMsg
                /\ loaderHidden'
                /\ console' = Append(console, requests[id].promise.reason)
                /\ requests[id].promise.reason \in {NetworkError, ParseError}
                /\ output' # requests[id].promise.reason ]_vars

C4_Witness ==
    /\ Ids = {}
    /\ console = <<NetworkError, ParseError>>
    /\ output = ErrorMsg
    /\ loaderHidden

------------------------------------------------------------------------------
(* C5: a response whose status is outside 200-299.                         *)

NonOk(id) ==
    /\ requests[id].served.kind = "response"
    /\ requests[id].served.status \notin 200..299

\* what the page shows for a body: the response field of a JSON object
\* ("undefined" when it has none), the error message for anything else
ShownFor(b) ==
    IF \E r \in Answers : b = ResponseObject(r)
        THEN CHOOSE r \in Answers : b = ResponseObject(r)
    ELSE IF b = <<LBrace, RBrace>> THEN "undefined"
    ELSE ErrorMsg

------------------------------------------------------------------------------
(* C6: two invocations before either request resolves.  The earlier        *)
(* request is not cancelled, every request in flight can take its next     *)
(* step whatever the others do, and the request whose chain finishes is    *)
(* the one whose result the output holds, whichever was issued first.      *)

ResultOf(id) ==
    IF requests[id].served.kind = "failure" THEN ErrorMsg
    ELSE ShownFor(ServedBody(id))

ChainStep(id) ==
    \/ FetchRejects(id)
    \/ ThenJson(id)
    \/ ThenData(id)
    \/ Catch(id)

C6_LastResolvedWins ==
    /\ [](pc = "idle" => \A id \in Ids : ENABLED ChainStep(id))
    /\ [][ /\ Issued => \A id \in Ids :
                          id \in DOMAIN requests' /\ requests'[id] = requests[id]
           /\ \A id \in Ids : Completed(id) => output' = ResultOf(id) ]_vars

\* the request issued first finished last, over the error of the second
C6_Witness ==
    /\ calls = 2
    /\ sent = 2
    /\ Ids = {}
    /\ last.id = 1
    /\ last.after = 0
    /\ console = <<NetworkError>>
    /\ output = "42"

------------------------------------------------------------------------------
(* C7: an invocation with empty trimmed input and the loading indicator.   *)

\* C7 as claimed: the loader is not shown when the handler returns, also
\* while an earlier request is in flight
C7_LoaderHiddenOnReturn ==
    [][ (Invoked /\ OnlyWhitespace(input)) => loaderHidden' ]_vars

\* C7 as amended: the handler leaves the loader as it found it; it is
\* hidden on return when no request is in flight, and still shown when the
\* request of an earlier invocation has shown it.
C7_LoaderUntouched ==
    [][ (Invoked /\ OnlyWhitespace(input)) =>
            /\ loaderHidden' = loaderHidden
            /\ Ids = {} => loaderHidden' ]_vars

C7_Witness ==
    /\ pc = "idle"
    /\ calls = 2
    /\ sent = 1
    /\ Ids = {1}
    /\ requests[1].promise.state = "pending"
    /\ output = ValidationMsg
    /\ ~loaderHidden

------------------------------------------------------------------------------
(* C8: a request that never resolves, no other request completing.         *)

StillPending(id) ==
    /\ id \in Ids
    /\ requests[id].promise.state = "pending"
    /\ id \in DOMAIN requests'
    /\ requests'[id].promise.state = "pending"

\* a success or failure callback of some request runs in this step
CallbackRan == \E id \in Ids : SuccessCallbackRan(id) \/ FailureCallbackRan(id)

Waiting == (\E id \in Ids : StillPending(id)) /\ ~CallbackRan

\* C8 as claimed: the loader stays visible and the output stays empty
C8_LoaderAndOutputStay ==
    [][ (Waiting /\ ~loaderHidden /\ output = "") =>
            (~loaderHidden' /\ output' = "") ]_vars

\* C8 as amended: the loader stays visible; the output stays empty until an
\* invocation with empty trimmed input puts the validation message there,
\* which stays until a later non-empty invocation clears it.
C8_LoaderStays ==
    [][ (Waiting /\ ~loaderHidden) =>
            /\ ~loaderHidden'
            /\ output = "" =>
                  \/ output' = ""
                  \/ output' = ValidationMsg /\ Invoked /\ OnlyWhitespace(input)
            /\ output = ValidationMsg =>
                  \/ output' = ValidationMsg
                  \/ output' = "" /\ pc = "clear" ]_vars

C8_Witness ==
    /\ Ids = {1, 2}
    /\ requests[1].promise.state = "pending"
    /\ requests[2].promise.state = "data"
    /\ last.id = 0
    /\ ~loaderHidden
    /\ output = ""

------------------------------------------------------------------------------
(* C9: the same question submitted twice, the second invocation after the  *)
(* first request has finished, the server answering alike: the second      *)
(* completion leaves the output text and the hidden loader that the first  *)
(* left.                                                                   *)

C9_SameOutputTwice ==
    [][ \A id \in Ids :
          (Completed(id) /\ Repeats(id)) =>
              /\ output' = last.text
              /\ last.hidden
              /\ loaderHidden' ]_vars

C9_Witness ==
    /\ calls = 2
    /\ sent = 2
    /\ Ids = {}
    /\ last.id = 2
    /\ last.after = 1
    /\ last.again
    /\ last.served = [kind |-> "failure"]
    /\ console = <<NetworkError, NetworkError>>
    /\ output = ErrorMsg
    /\ loaderHidden

------------------------------------------------------------------------------
(* C10: the handler clears the output and then shows the loading           *)
(* indicator before it issues the request: as the request leaves, the      *)
(* output is empty, whatever it showed before, and the loader is visible.  *)

C10_ClearedBeforeRequest ==
    [][ /\ pc = "clear" => (output' = "" /\ pc' = "show")
        /\ pc = "show" => (output' = "" /\ ~loaderHidden' /\ pc' = "fetch")
        /\ Issued =>
              /\ pc = "fetch"
              /\ output = "" /\ ~loaderHidden
              /\ output' = "" /\ ~loaderHidden' ]_vars

C10_Witness ==
    /\ pc = "fetch"
    /\ last.id # 0
    /\ last.text = "42"
    /\ output = ""
    /\ ~loaderHidden

------------------------------------------------------------------------------
(* C11: the loading indicator signals the requests in flight: in every     *)
(* state in which an issued request has not resolved yet, the loader is    *)
(* visible.                                                                *)

Unresolved == {id \in Ids : requests[id].promise.state = "pending"}

C11_LoaderSignalsInFlight == Unresolved # {} => ~loaderHidden

------------------------------------------------------------------------------
(* C12: with finitely many invocations and every request resolving in the  *)
(* end, the page comes to rest with no request in flight and the loader    *)
(* hidden, and rests until the next invocation; the loader is hidden when  *)
(* a chain finishes by either callback, and also when the success callback *)
(* throws.                                                                 *)

Quiet == pc = "idle" /\ Ids = {} /\ loaderHidden

\* the success callback of request id throws in this step
SuccessCallbackThrew(id) ==
    /\ SuccessCallbackRan(id)
    /\ id \in DOMAIN requests'
    /\ requests'[id].promise.state = "rejected"

C12_ComesToRest ==
    /\ <>[]Quiet
    /\ [][ /\ (Quiet /\ ~Invoked) => Quiet'
           /\ \A id \in Ids :
                (Completed(id) \/ SuccessCallbackThrew(id)) => loaderHidden' ]_vars

\* at rest after a success callback that threw
C12_Witness ==
    /\ Quiet
    /\ calls = 1
    /\ sent = 1
    /\ last.id = 1
    /\ console = <<PropertyError>>
    /\ output = ErrorMsg

------------------------------------------------------------------------------
(* C13: an invocation with empty trimmed input changes the output text and *)
(* nothing else: the loader, the input field and the requests in flight    *)
(* are as before, so a request in flight can still take its steps, and     *)
(* when its chain finishes its answer or error message replaces the        *)
(* validation message.                                                     *)

C13_OnlyOutputChanges ==
    /\ []((pc = "idle" /\ output = ValidationMsg) =>
              \A id \in Ids : ENABLED ChainStep(id))
    /\ [][ /\ (Invoked /\ OnlyWhitespace(input)) =>
                 /\ output' = ValidationMsg
                 /\ loaderHidden' = loaderHidden
                 /\ input' = input
                 /\ requests' = requests
           /\ \A id \in Ids :
                (Completed(id) /\ output = ValidationMsg) =>
                    /\ output' = ResultOf(id)
                    /\ output' # ValidationMsg ]_vars

\* the second invocation found the input empty while the request of the
\* first was in flight; its answer then replaced the validation message
C13_Witness ==
    /\ pc = "idle"
    /\ calls = 2
    /\ sent = 1
    /\ input = <<>>
    /\ Ids = {}
    /\ last.id = 1
    /\ output = "42"
    /\ loaderHidden

====
